---- MODULE Spec2Model ----
(***************************************************************************)
(* A model of jinjor/deno-task-runner: the parser of task definitions      *)
(* (src/parser.ts), the compiler and reference resolver and the execution  *)
(* engine with its two watchers (src/runner.ts, lines 1-323).              *)
(*                                                                         *)
(* Strings are sequences of one-character strings, so that trimming and    *)
(* splitting are computed character by character as the code does.         *)
(***************************************************************************)
EXTENDS Naturals, Sequences, FiniteSets, TLC

(***************************************************************************)
(* String helpers (String.prototype.trim / split of the JS runtime).       *)
(***************************************************************************)
IsSpace(c) == c = " "

RECURSIVE TrimLeft(_)
TrimLeft(s) ==
  IF s # <<>> /\ IsSpace(Head(s)) THEN TrimLeft(Tail(s)) ELSE s

RECURSIVE TrimRight(_)
TrimRight(s) ==
  IF s # <<>> /\ IsSpace(s[Len(s)]) THEN TrimRight(SubSeq(s, 1, Len(s) - 1)) ELSE s

\* A trim that leaves the blanks at the end.
TrimStartOnly(s) == TrimLeft(s)

Trim(s) == TrimRight(TrimLeft(s))

\* Length of the match of a tier's operator pattern at position i of s (0: none):
\* /(&&|\|\|)/ for "seq", /([&|])/ for "para", /([><])/ for "redir",
\* /\s/ for "space", /(>>|\|&)/ for "unsupported".
MatchLen(tier, s, i) ==
  CASE tier = "seq" ->
         IF i + 1 <= Len(s) /\ ((s[i] = "&" /\ s[i + 1] = "&") \/ (s[i] = "|" /\ s[i + 1] = "|"))
         THEN 2 ELSE 0
    [] tier = "para" -> IF s[i] \in {"&", "|"} THEN 1 ELSE 0
    [] tier = "redir" -> IF s[i] \in {">", "<"} THEN 1 ELSE 0
    [] tier = "space" -> IF IsSpace(s[i]) THEN 1 ELSE 0
    [] tier = "unsupported" ->
         IF i + 1 <= Len(s) /\ ((s[i] = ">" /\ s[i + 1] = ">") \/ (s[i] = "|" /\ s[i + 1] = "&"))
         THEN 2 ELSE 0

\* s.split(re) with a capturing group: the pieces between the matches, with the
\* matched operators between them.  /\s/ has no group: its matches are dropped.
RECURSIVE SplitFrom(_, _, _, _)
SplitFrom(tier, s, i, cur) ==
  IF i > Len(s) THEN <<cur>>
  ELSE LET m == MatchLen(tier, s, i) IN
       IF m > 0
       THEN (IF tier = "space" THEN <<cur>> ELSE <<cur, SubSeq(s, i, i + m - 1)>>)
            \o SplitFrom(tier, s, i + m, <<>>)
       ELSE SplitFrom(tier, s, i + 1, Append(cur, s[i]))

Split(tier, s) == SplitFrom(tier, s, 1, <<>>)

\* s.match(/(>>|\|&)/g) || []: the matched tokens, left to right.
RECURSIVE MatchAllFrom(_, _, _)
MatchAllFrom(tier, s, i) ==
  IF i > Len(s) THEN <<>>
  ELSE LET m == MatchLen(tier, s, i) IN
       IF m > 0 THEN <<SubSeq(s, i, i + m - 1)>> \o MatchAllFrom(tier, s, i + m)
       ELSE MatchAllFrom(tier, s, i + 1)

(***************************************************************************)
(* src/parser.ts                                                           *)
(***************************************************************************)
ParseError == [tag |-> "ParseError"]
Leaf(v) == [tag |-> "Leaf", value |-> v]
LBranch(l, op, r) == [tag |-> "Branch", left |-> l, op |-> op, right |-> r]
IsParseError(v) == DOMAIN v = {"tag"} /\ v.tag = "ParseError"

\* The absent optional field of AST.Command (input?, output?).
Undefined == <<>>

\* reduceCommand: walks the redirect chain from its outermost (rightmost) branch
\* down the left spine to the leaf.
RECURSIVE reduceWalk(_, _)

\* reduceCommand without the final test of result.command (lines 54-56).
reduceWalkKeepsEmpty(ast, result) ==
  IF ast.tag = "Leaf"
  THEN [result EXCEPT !.command = Trim(ast.value)]
  ELSE IF Trim(ast.right) = <<>> THEN ParseError
  ELSE reduceWalk(ast.left,
         [result EXCEPT !.input = IF ast.op # <<"<">> \/ result.input # Undefined
                                   THEN result.input ELSE Trim(ast.right)])

\* reduceCommand with "result.input = input" at line 44: every < on the way to
\* the leaf replaces the target.
reduceWalkOverwrites(ast, result) ==
  IF ast.tag = "Leaf"
  THEN IF Trim(ast.value) = <<>> THEN ParseError
       ELSE [result EXCEPT !.command = Trim(ast.value)]
  ELSE IF Trim(ast.right) = <<>> THEN ParseError
  ELSE reduceWalk(ast.left,
         [result EXCEPT !.input = IF ast.op = <<"<">> THEN Trim(ast.right) ELSE result.input])

reduceWalk(ast, result) ==
  IF ast.tag = "Leaf"
  THEN LET r == [result EXCEPT !.command = Trim(ast.value)] IN
       IF r.command = <<>> THEN ParseError ELSE r
  ELSE IF ast.op = <<"<">>
       THEN LET input == Trim(ast.right) IN
            IF input = <<>> THEN ParseError
            ELSE reduceWalk(ast.left,
                   [result EXCEPT !.input = IF result.input # Undefined THEN result.input ELSE input])
       ELSE LET output == Trim(ast.right) IN
            IF output = <<>> THEN ParseError
            ELSE reduceWalk(ast.left, [result EXCEPT !.output = result.output])

reduceCommand(ast) ==
  reduceWalk(ast, [tag |-> "Command", command |-> <<>>, input |-> Undefined, output |-> Undefined])

RECURSIVE sep(_, _)
RECURSIVE sepBuild(_, _, _)
RECURSIVE each(_, _)
RECURSIVE redirects(_)
RECURSIVE para(_)

\* The parser sep applies to every piece of a tier: s => s.trim() under redirects
\* (line 27), redirects under para (line 29), para under seq (line 30).
each(tier, s) ==
  CASE tier = "redir" -> Trim(s)
    [] tier = "para" -> redirects(s)
    [] tier = "seq" -> para(s)

\* The loop of sep over arr[1..i], i odd: a left-associative chain.
sepBuild(tier, arr, i) ==
  IF i = 1
  THEN LET v == each(tier, arr[1]) IN
       IF tier # "redir" /\ IsParseError(v) THEN ParseError ELSE Leaf(v)
  ELSE LET l == sepBuild(tier, arr, i - 2) IN
       IF IsParseError(l) THEN ParseError
       ELSE LET r == each(tier, arr[i]) IN
            IF tier # "redir" /\ IsParseError(r) THEN ParseError
            ELSE LBranch(l, arr[i - 1], r)

sep(tier, s) ==
  LET arr == Split(tier, Trim(s)) IN sepBuild(tier, arr, Len(arr))

redirects(s) == reduceCommand(sep("redir", s))
para(s) == sep("para", s)
seq(s) == sep("seq", s)

\* A thrown Error: its message and the string the message names (a task name, a
\* command name, the input), and the process id a ProcessError carries (else 0).
Error(msg, what) == [tag |-> "Error", msg |-> msg, what |-> what, pid |-> 0]
IsError(v) == v.tag = "Error"

\* Array.prototype.join(" ")
RECURSIVE Join(_)
Join(tokens) ==
  IF tokens = <<>> THEN <<>>
  ELSE IF Len(tokens) = 1 THEN tokens[1]
  ELSE tokens[1] \o <<" ">> \o Join(Tail(tokens))

\* A parse that looks for unsupported operators only once the structure is known.
parseStructureFirst(s) ==
  IF IsParseError(seq(s)) THEN Error("Invalid command", s)
  ELSE IF Len(MatchAllFrom("unsupported", s, 1)) > 0
  THEN Error("Unsupported operator", Join(MatchAllFrom("unsupported", s, 1)))
  ELSE seq(s)

parse(s) ==
  LET unsupportedOperators == MatchAllFrom("unsupported", s, 1) IN
  IF Len(unsupportedOperators) > 0
  THEN Error("Unsupported operator", Join(unsupportedOperators))
  ELSE LET t == seq(s) IN
       IF IsParseError(t) THEN Error("Invalid command", s) ELSE t

(***************************************************************************)
(* src/runner.ts: the compiler (makeCommand ... makeCommandFromASTCommand). *)
(***************************************************************************)
Single(name, args) == [tag |-> "Single", name |-> name, args |-> args]
Ref(name, args) == [tag |-> "Ref", name |-> name, args |-> args]
Sequence(commands) == [tag |-> "Sequence", commands |-> commands]
Parallel(commands) == [tag |-> "Parallel", commands |-> commands]
SyncWatcher(command) == [tag |-> "SyncWatcher", command |-> command]
AsyncWatcher(command) == [tag |-> "AsyncWatcher", command |-> command]

\* What a throwing call inside Array.prototype.map leaves: the first error thrown.
HasError(cs) == \E i \in 1..Len(cs) : IsError(cs[i])
FirstError(cs) ==
  cs[CHOOSE i \in 1..Len(cs) : IsError(cs[i]) /\ \A j \in 1..(i - 1) : ~IsError(cs[j])]

\* new Sequence(cs) or new Parallel(cs) once every cs[i] has been built; the
\* first throw while building them leaves the call instead.
Composite(tag, cs) ==
  IF HasError(cs) THEN FirstError(cs) ELSE [tag |-> tag, commands |-> cs]

\* Lines 313-322: the first word names the program, or a task when it starts
\* with "$"; the other words are the arguments.
commandOfWords(name, args) ==
  IF name # <<>> /\ Head(name) = "$"
  THEN IF Len(name) = 1 THEN Error("Task name should not be empty.", <<>>)
       ELSE Ref(Tail(name), args)
  ELSE Single(name, args)

commandOfSplitted(splitted) ==
  IF Len(splitted) = 0 THEN Error("Command should not be empty.", <<>>)
  ELSE commandOfWords(Head(splitted), Tail(splitted))

makeCommandFromASTCommand(ast) == commandOfSplitted(Split("space", ast.command))

RECURSIVE makeCommandFromASTParallel(_)

\* makeCommandFromASTParallel building a Sequence where the code builds a Parallel.
makeCommandFromASTParallelInOrder(ast) ==
  IF ast.tag = "Leaf" THEN makeCommandFromASTCommand(ast.value)
  ELSE Composite("Sequence", <<makeCommandFromASTParallel(ast.left),
                               makeCommandFromASTCommand(ast.right)>>)

makeCommandFromASTParallel(ast) ==
  IF ast.tag = "Leaf" THEN makeCommandFromASTCommand(ast.value)
  ELSE Composite("Parallel", <<makeCommandFromASTParallel(ast.left),
                               makeCommandFromASTCommand(ast.right)>>)

RECURSIVE makeCommandFromAST(_)
makeCommandFromAST(ast) ==
  IF ast.tag = "Leaf" THEN makeCommandFromASTParallel(ast.value)
  ELSE Composite("Sequence", <<makeCommandFromAST(ast.left),
                               makeCommandFromASTParallel(ast.right)>>)

\* makeCommandFromAST is reached only when parse returned a tree.
commandOfParsed(ast) == IF IsError(ast) THEN ast ELSE makeCommandFromAST(ast)

makeSingleCommand(raw) == commandOfParsed(parse(raw))

\* A raw command is a string, [isArray |-> FALSE, items |-> <<s>>], or an array of
\* strings, [isArray |-> TRUE, items |-> <<s1, ..., sn>>].
makeNonSequenceCommand(rawCommand) ==
  LET cs == [i \in 1..Len(rawCommand.items) |-> makeSingleCommand(rawCommand.items[i])] IN
  IF rawCommand.isArray THEN Composite("Parallel", cs) ELSE cs[1]

makeCommand(rawCommands) ==
  IF Len(rawCommands) = 0 THEN Error("Task needs at least one command.", <<>>)
  ELSE LET cs == [i \in 1..Len(rawCommands) |-> makeNonSequenceCommand(rawCommands[i])] IN
       IF Len(rawCommands) = 1 THEN cs[1] ELSE Composite("Sequence", cs)

(***************************************************************************)
(* src/runner.ts: reference resolution (Command.resolveRef).               *)
(***************************************************************************)
\* Ref.resolveRef, lines 83-85: the reference's arguments are merged into the
\* referenced command only when that command is a Single.
mergeArgs(command, args) ==
  IF command.tag = "Single" THEN Single(command.name, command.args \o args) ELSE command

RECURSIVE resolveRef(_, _, _)

\* Ref.resolveRef returning the reference itself, unresolved, when it meets a task
\* for the second time, where the code throws.
Ref_resolveRefReturnsVisited(cmd, registry, context) ==
  IF cmd.name \notin DOMAIN registry
  THEN Error("Task is not defined.", cmd.name)
  ELSE IF cmd.name \in context.checked
  THEN cmd
  ELSE resolveRef(mergeArgs(registry[cmd.name], cmd.args), registry,
                  [context EXCEPT !.checked = context.checked \cup {cmd.name}])

\* Ref.resolveRef, lines 75-90.
Ref_resolveRef(cmd, registry, context) ==
  IF cmd.name \notin DOMAIN registry
  THEN Error("Task is not defined.", cmd.name)
  ELSE IF cmd.name \in context.checked
  THEN Error("Task is in a reference loop.", cmd.name)
  ELSE resolveRef(mergeArgs(registry[cmd.name], cmd.args), registry,
                  [context EXCEPT !.checked = context.checked \cup {cmd.name}])

\* What line 84 would leave in the registry if it appended this.args to the
\* array of the registered Single.
storedAfterMergeInPlace(command, args) == mergeArgs(command, args)

\* What line 84 leaves in the registry: concat builds a new array for a new
\* Single, and `command` is a local variable; the registered Single is as it was.
storedAfterMerge(command, args) == command

\* this.tasks once resolveRef has gone through cmd: the walk of resolveRef
\* (lines 75-90, 99-105, 120-126, 141-150, 173-182), keeping what is stored.
RECURSIVE tasksAfterResolve(_, _, _)
RECURSIVE tasksAfterAll(_, _, _, _)
tasksAfterRef(cmd, registry, checked) ==
  IF cmd.name \notin DOMAIN registry \/ cmd.name \in checked THEN registry
  ELSE tasksAfterResolve(mergeArgs(registry[cmd.name], cmd.args),
                         [registry EXCEPT ![cmd.name] = storedAfterMerge(@, cmd.args)],
                         checked \cup {cmd.name})
tasksAfterAll(cmds, i, registry, checked) ==
  IF i > Len(cmds) THEN registry
  ELSE tasksAfterAll(cmds, i + 1, tasksAfterResolve(cmds[i], registry, checked), checked)
tasksAfterResolve(cmd, registry, checked) ==
  CASE cmd.tag = "Single" -> registry
    [] cmd.tag = "Ref" -> tasksAfterRef(cmd, registry, checked)
    [] cmd.tag \in {"Sequence", "Parallel"} -> tasksAfterAll(cmd.commands, 1, registry, checked)
    [] cmd.tag \in {"SyncWatcher", "AsyncWatcher"} -> tasksAfterResolve(cmd.command, registry, checked)

\* new SyncWatcher(..., c) / new AsyncWatcher(..., c) once c has been resolved.
Rewrap(tag, c) == IF IsError(c) THEN c ELSE [tag |-> tag, command |-> c]

\* A watcher's resolveRef that neither tests nor sets context.hasWatcher.
Watcher_resolveRefUnmarked(cmd, registry, context) ==
  Rewrap(cmd.tag, resolveRef(cmd.command, registry, context))

\* SyncWatcher.resolveRef, lines 141-150, and AsyncWatcher.resolveRef, lines 173-182.
Watcher_resolveRef(cmd, registry, context) ==
  IF context.hasWatcher THEN Error("Nested watchers not supported.", <<>>)
  ELSE Rewrap(cmd.tag, resolveRef(cmd.command, registry, [context EXCEPT !.hasWatcher = TRUE]))

\* The names a set of visited tasks shared by the whole resolution would hold
\* once cmd, or the first n of cmds, had been resolved.
RECURSIVE visitedBy(_, _, _)
RECURSIVE visitedUpTo(_, _, _, _)
visitedBy(cmd, registry, checked) ==
  CASE cmd.tag = "Single" -> checked
    [] cmd.tag = "Ref" ->
         IF cmd.name \notin DOMAIN registry \/ cmd.name \in checked THEN checked
         ELSE visitedBy(registry[cmd.name], registry, checked \cup {cmd.name})
    [] cmd.tag \in {"Sequence", "Parallel"} ->
         visitedUpTo(cmd.commands, Len(cmd.commands), registry, checked)
    [] cmd.tag \in {"SyncWatcher", "AsyncWatcher"} -> visitedBy(cmd.command, registry, checked)
visitedUpTo(cmds, n, registry, checked) ==
  IF n = 0 THEN checked
  ELSE visitedBy(cmds[n], registry, visitedUpTo(cmds, n - 1, registry, checked))

\* A resolveRef whose context.checked is one set for the whole resolution: a
\* command of a Sequence or Parallel sees the tasks its elder siblings visited.
resolveRefSharedVisited(cmd, registry, context) ==
  CASE cmd.tag = "Single" -> cmd
    [] cmd.tag = "Ref" -> Ref_resolveRef(cmd, registry, context)
    [] cmd.tag \in {"Sequence", "Parallel"} ->
         Composite(cmd.tag, [i \in 1..Len(cmd.commands) |->
                               resolveRef(cmd.commands[i], registry,
                                          [context EXCEPT !.checked =
                                             visitedUpTo(cmd.commands, i - 1, registry, @)])])
    [] cmd.tag \in {"SyncWatcher", "AsyncWatcher"} -> Watcher_resolveRef(cmd, registry, context)

\* A resolveRef whose Sequence and Parallel return themselves, as Single does.
resolveRefShallow(cmd, registry, context) ==
  CASE cmd.tag \in {"Single", "Sequence", "Parallel"} -> cmd
    [] cmd.tag = "Ref" -> Ref_resolveRef(cmd, registry, context)
    [] cmd.tag \in {"SyncWatcher", "AsyncWatcher"} -> Watcher_resolveRef(cmd, registry, context)

\* Command.resolveRef(tasks, context): Single (line 31) returns itself, Sequence
\* (lines 99-105) and Parallel (lines 120-126) resolve their commands in order.
resolveRef(cmd, registry, context) ==
  CASE cmd.tag = "Single" -> cmd
    [] cmd.tag = "Ref" -> Ref_resolveRef(cmd, registry, context)
    [] cmd.tag \in {"Sequence", "Parallel"} ->
         Composite(cmd.tag, [i \in 1..Len(cmd.commands) |->
                               resolveRef(cmd.commands[i], registry, context)])
    [] cmd.tag \in {"SyncWatcher", "AsyncWatcher"} -> Watcher_resolveRef(cmd, registry, context)

(***************************************************************************)
(* src/runner.ts: the execution engine.                                    *)
(*                                                                         *)
(* A run is a set of frames, one per call of Command.run that has been     *)
(* made.  A frame is keyed by the path of its node in the resolved command *)
(* (child indexes from the root) and by the iteration of the watcher the   *)
(* node lies under (0 outside a watcher): an AsyncWatcher starts a new run *)
(* of its inner command while the frames of the previous one are alive.    *)
(*                                                                         *)
(* The operators below take and return a record st of the mutable state:   *)
(*   root      the resolved command,                                       *)
(*   procs     the processes spawned so far, in spawn order (pid = index), *)
(*   frames    the frames, by key,                                         *)
(*   resources the resource sets (Set<Closer>), by the object's identity,  *)
(*   result    how the promise of TaskRunner.run settled,                  *)
(*   watching  the paths of the watchers whose change stream is open.      *)
(* One call of an operator is one synchronous stretch of the event loop:   *)
(* everything the code does until every call chain it started is parked on *)
(* an await of a process status or of the next change event.               *)
(***************************************************************************)
Ok == [tag |-> "Ok", msg |-> "", what |-> <<>>, pid |-> 0]
Pending == [tag |-> "Pending", msg |-> "", what |-> <<>>, pid |-> 0]
ProcessError(pid) ==
  [tag |-> "Error", msg |-> "Process exited with status code", what |-> <<>>, pid |-> pid]

\* The programs deno.run cannot locate in the modelled environment
\* (DenoError of kind NotFound, lines 43-46).
NotInstalled == {<<"n">>}

Front(s) == SubSeq(s, 1, Len(s) - 1)
Last(s) == s[Len(s)]
Key(path, iter) == [path |-> path, iter |-> iter]
IsWatcher(cmd) == cmd.tag \in {"SyncWatcher", "AsyncWatcher"}

RECURSIVE NodeAt(_, _)
NodeAt(cmd, path) ==
  IF path = <<>> THEN cmd
  ELSE IF cmd.tag \in {"Sequence", "Parallel"} THEN NodeAt(cmd.commands[Head(path)], Tail(path))
  ELSE NodeAt(cmd.command, Tail(path))

\* The frame that awaits the frame `key`.
ParentKey(root, key) ==
  LET pp == Front(key.path) IN
  Key(pp, IF IsWatcher(NodeAt(root, pp)) THEN 0 ELSE key.iter)

\* The identity of a Set<Closer>: the set TaskRunner.run allocates (line 265),
\* or the childResources a watcher at `path` allocates (lines 155, 187).
ContextResources == [owner |-> "context", path |-> <<>>]
ChildResources(path) == [owner |-> "childResources", path |-> path]

\* A closer: <<pid>> closes (kills) process pid; <<0>> \o path is the guard
\* closer of the AsyncWatcher at path (lines 188-192).
ProcessCloser(pid) == <<pid>>
GuardCloser(path) == <<0>> \o path

NewFrame(cmd, rs, args) ==
  [tag |-> cmd.tag, state |-> "running", outcome |-> Pending, i |-> 0, pending |-> {},
   resources |-> rs, args |-> args, iter |-> 0]

AddFrame(st, key, f) == [st EXCEPT !.frames = (key :> f) @@ @]

\* A Sequence that goes on to its next command whatever the last one's outcome.
SequenceContinuesAlways(outcome) == TRUE

\* Sequence.run, lines 111-113: `await command.run(...)` throws when the command
\* failed, which leaves the loop.
SequenceContinues(outcome) == outcome.tag = "Ok"

\* A Parallel that waits for every command and ignores how each one ended.
ParallelNeverRejects(outcome) == FALSE

\* Promise.all (line 132) rejects as soon as one promise rejects.
ParallelRejects(outcome) == outcome.tag # "Ok"

\* Single.run, line 38: the argument vector of the spawned process.
SpawnArgs(cmd, args) == <<cmd.name>> \o cmd.args \o args

\* A closeResouces that closes every closer and leaves them in the set.
closeResoucesKeepsSet(st, rs) ==
  [st EXCEPT !.procs = [p \in DOMAIN @ |->
                          IF ProcessCloser(p) \in st.resources[rs]
                          THEN [@[p] EXCEPT !.killed = TRUE] ELSE @[p]]]

\* A closeResouces that clears the set and closes nothing.
closeResoucesOnlyClears(st, rs) == [st EXCEPT !.resources[rs] = {}]

\* closeResouces, lines 207-212: close() of a process closer sends the kill
\* (lines 63-71), then the set is cleared.
closeResouces(st, rs) ==
  [st EXCEPT !.procs = [p \in DOMAIN @ |->
                          IF ProcessCloser(p) \in st.resources[rs]
                          THEN [@[p] EXCEPT !.killed = TRUE] ELSE @[p]],
             !.resources[rs] = {}]

RECURSIVE run(_, _, _, _, _)
RECURSIVE runAll(_, _, _, _, _)
RECURSIVE Settle(_, _, _)

\* Settle for watchers whose runs of the inner command have no .catch: a
\* failure of the inner command settles the watcher with it.
SettleUncaught(st, key, outcome) ==
  LET st1 == [st EXCEPT !.frames[key].state = "settled", !.frames[key].outcome = outcome] IN
  IF key.path = <<>> THEN [st1 EXCEPT !.result = outcome]
  ELSE
    LET pk == ParentKey(st.root, key)
        parent == NodeAt(st.root, pk.path)
        idx == Last(key.path)
        pf == st1.frames[pk]
    IN CASE parent.tag = "Sequence" ->
              IF SequenceContinues(outcome)
              THEN IF idx < Len(parent.commands)
                   THEN run([st1 EXCEPT !.frames[pk].i = idx + 1], parent.commands[idx + 1],
                            Key(pk.path \o <<idx + 1>>, key.iter), <<>>, pf.resources)
                   ELSE Settle(st1, pk, Ok)
              ELSE Settle(st1, pk, outcome)
         [] parent.tag = "Parallel" ->
              LET st2 == [st1 EXCEPT !.frames[pk].pending = @ \ {idx}] IN
              IF pf.state = "settled" THEN st2
              ELSE IF ParallelRejects(outcome) THEN Settle(st2, pk, outcome)
              ELSE IF st2.frames[pk].pending = {} THEN Settle(st2, pk, Ok)
              ELSE st2
         [] parent.tag = "SyncWatcher" ->
              IF outcome.tag # "Ok" THEN Settle(st1, pk, outcome)
              ELSE [st1 EXCEPT !.frames[pk].state = "waiting", !.watching = @ \cup {pk.path}]
         [] parent.tag = "AsyncWatcher" ->
              IF outcome.tag # "Ok" THEN Settle(st1, pk, outcome) ELSE st1

\* The promise of the frame `key` settles with `outcome`: the continuation of
\* whoever awaits it runs.
Settle(st, key, outcome) ==
  LET st1 == [st EXCEPT !.frames[key].state = "settled", !.frames[key].outcome = outcome] IN
  IF key.path = <<>> THEN [st1 EXCEPT !.result = outcome]
  ELSE
    LET pk == ParentKey(st.root, key)
        parent == NodeAt(st.root, pk.path)
        idx == Last(key.path)
        pf == st1.frames[pk]
    IN CASE parent.tag = "Sequence" ->
              IF SequenceContinues(outcome)
              THEN IF idx < Len(parent.commands)
                   THEN run([st1 EXCEPT !.frames[pk].i = idx + 1], parent.commands[idx + 1],
                            Key(pk.path \o <<idx + 1>>, key.iter), <<>>, pf.resources)
                   ELSE Settle(st1, pk, Ok)
              ELSE Settle(st1, pk, outcome)
         [] parent.tag = "Parallel" ->
              LET st2 == [st1 EXCEPT !.frames[pk].pending = @ \ {idx}] IN
              IF pf.state = "settled" THEN st2
              ELSE IF ParallelRejects(outcome) THEN Settle(st2, pk, outcome)
              ELSE IF st2.frames[pk].pending = {} THEN Settle(st2, pk, Ok)
              ELSE st2
         \* SyncWatcher.run, lines 156-159 and 161-163: .catch swallows the outcome,
         \* then the loop asks the change stream for the next event.
         [] parent.tag = "SyncWatcher" ->
              [st1 EXCEPT !.frames[pk].state = "waiting", !.watching = @ \cup {pk.path}]
         \* AsyncWatcher.run, lines 194-196 and 199-201: the outcome is swallowed.
         [] parent.tag = "AsyncWatcher" -> st1

Single_run(st, cmd, key, args, rs) ==
  LET st1 == AddFrame(st, key, NewFrame(cmd, rs, args)) IN
  IF cmd.name \in NotInstalled
  THEN Settle(st1, key, Error("Command not found.", cmd.name))
  ELSE LET pid == Len(st.procs) + 1
           p == [key |-> key, args |-> SpawnArgs(cmd, args), status |-> "running",
                 killed |-> FALSE, resources |-> rs]
       IN [st1 EXCEPT !.procs = Append(@, p), !.resources[rs] = @ \cup {ProcessCloser(pid)}]

\* Sequence.run without the test of args.length (lines 108-110).
Sequence_runUnchecked(st, cmd, key, args, rs) ==
  LET st1 == AddFrame(st, key, NewFrame(cmd, rs, args)) IN
  IF Len(cmd.commands) = 0 THEN Settle(st1, key, Ok)
  ELSE run([st1 EXCEPT !.frames[key].i = 1], cmd.commands[1],
           Key(key.path \o <<1>>, key.iter), <<>>, rs)

\* Sequence.run, lines 107-114.
Sequence_run(st, cmd, key, args, rs) ==
  LET st1 == AddFrame(st, key, NewFrame(cmd, rs, args)) IN
  IF Len(args) > 0 THEN Settle(st1, key, Error("Cannot pass args to sequential tasks.", <<>>))
  ELSE IF Len(cmd.commands) = 0 THEN Settle(st1, key, Ok)
  ELSE run([st1 EXCEPT !.frames[key].i = 1], cmd.commands[1],
           Key(key.path \o <<1>>, key.iter), <<>>, rs)

\* A Parallel that gives each of its commands a Set<Closer> of its own.
BranchResources(path) == [owner |-> "branch", path |-> path]
RECURSIVE runAllApart(_, _, _, _)
runAllApart(st, cmds, key, i) ==
  IF i > Len(cmds) THEN st
  ELSE runAllApart(run([st EXCEPT !.resources = (BranchResources(key.path \o <<i>>) :> {}) @@ @],
                       cmds[i], Key(key.path \o <<i>>, key.iter), <<>>,
                       BranchResources(key.path \o <<i>>)),
                   cmds, key, i + 1)
Parallel_runApart(st, cmd, key, args, rs) ==
  IF Len(args) > 0
  THEN Settle(AddFrame(st, key, NewFrame(cmd, rs, args)), key,
              Error("Cannot pass args to parallel tasks.", <<>>))
  ELSE IF Len(cmd.commands) = 0
  THEN Settle(AddFrame(st, key, NewFrame(cmd, rs, args)), key, Ok)
  ELSE runAllApart([AddFrame(st, key, NewFrame(cmd, rs, args))
                      EXCEPT !.frames[key].pending = 1..Len(cmd.commands)],
                   cmd.commands, key, 1)

Parallel_run(st, cmd, key, args, rs) ==
  LET st1 == AddFrame(st, key, NewFrame(cmd, rs, args)) IN
  IF Len(args) > 0 THEN Settle(st1, key, Error("Cannot pass args to parallel tasks.", <<>>))
  ELSE LET st2 == runAll([st1 EXCEPT !.frames[key].pending = 1..Len(cmd.commands)],
                         cmd.commands, key, 1, rs)
       IN IF Len(cmd.commands) = 0 THEN Settle(st2, key, Ok) ELSE st2

\* this.commands.map(c => c.run([], context)): every command is started, in order.
runAll(st, cmds, key, i, rs) ==
  IF i > Len(cmds) THEN st
  ELSE runAll(run(st, cmds[i], Key(key.path \o <<i>>, key.iter), <<>>, rs), cmds, key, i + 1, rs)

SyncWatcher_run(st, cmd, key, args, rs) ==
  LET childResources == ChildResources(key.path)
      st1 == AddFrame(st, key, [NewFrame(cmd, rs, args) EXCEPT !.iter = 1])
      st2 == [st1 EXCEPT !.resources = (childResources :> {}) @@ @]
  IN run(st2, cmd.command, Key(key.path \o <<1>>, 1), args, childResources)

AsyncWatcher_run(st, cmd, key, args, rs) ==
  LET childResources == ChildResources(key.path)
      st1 == AddFrame(st, key, [NewFrame(cmd, rs, args) EXCEPT !.iter = 1, !.state = "waiting"])
      st2 == [st1 EXCEPT !.resources = (childResources :> {}) @@ @]
      st3 == [st2 EXCEPT !.resources[rs] = @ \cup {GuardCloser(key.path)}]
      st4 == run(st3, cmd.command, Key(key.path \o <<1>>, 1), args, childResources)
  IN [st4 EXCEPT !.watching = @ \cup {key.path}]

\* Command.run(args, context) of the node `cmd` at `key`, with context.resources = rs.
run(st, cmd, key, args, rs) ==
  CASE cmd.tag = "Single" -> Single_run(st, cmd, key, args, rs)
    [] cmd.tag = "Sequence" -> Sequence_run(st, cmd, key, args, rs)
    [] cmd.tag = "Parallel" -> Parallel_run(st, cmd, key, args, rs)
    [] cmd.tag = "SyncWatcher" -> SyncWatcher_run(st, cmd, key, args, rs)
    [] cmd.tag = "AsyncWatcher" -> AsyncWatcher_run(st, cmd, key, args, rs)
    [] cmd.tag = "Ref" ->
         Settle(AddFrame(st, key, NewFrame(cmd, rs, args)), key,
                Error("Ref should be resolved before running.", <<>>))

\* The body of the watchers' `for await` loop for one change event (lines 160-163,
\* 198-201): the SyncWatcher awaits the new run, the AsyncWatcher does not.
OnChange(st, key) ==
  LET w == NodeAt(st.root, key.path)
      f == st.frames[key]
      childResources == ChildResources(key.path)
      st1 == closeResouces(st, childResources)
      st2 == [st1 EXCEPT !.frames[key].iter = f.iter + 1,
                         !.frames[key].state = IF w.tag = "SyncWatcher" THEN "running" ELSE "waiting"]
  IN run(st2, w.command, Key(key.path \o <<1>>, f.iter + 1), f.args, childResources)

\* The continuation of Single.run after `await p.status()` (lines 55-60).
OnExit(st, pid, success) ==
  LET p == st.procs[pid]
      st1 == [st EXCEPT !.procs[pid].status = IF success THEN "succeeded" ELSE "failed",
                        !.resources[p.resources] = @ \ {ProcessCloser(pid)}]
  IN Settle(st1, p.key, IF success THEN Ok ELSE ProcessError(pid))

(***************************************************************************)
(* The inputs: task files.  A task file is the sequence of calls a script  *)
(* makes on the runner before the run starts (src/mod.ts, src/test):       *)
(* task(name, ...rawCommands), and .watch() / .watchSync() on the          *)
(* decorator task() returned.                                              *)
(***************************************************************************)
S_p == <<"p">>  \* "p"
S_q1 == <<"q", " ", "1">>  \* "q 1"
S_n == <<"n">>  \* "n"
S_p_and_q == <<"p", " ", "&", "&", " ", "q">>  \* "p && q"
S_p_or_q == <<"p", " ", "|", "|", " ", "q">>  \* "p || q"
S_p_amp_q == <<"p", " ", "&", " ", "q">>  \* "p & q"
S_p_pipe_q == <<"p", " ", "|", " ", "q">>  \* "p | q"
S_n_and_p == <<"n", " ", "&", "&", " ", "p">>  \* "n && p"
S_p_and_n == <<"p", " ", "&", "&", " ", "n">>  \* "p && n"
S_n_amp_p == <<"n", " ", "&", " ", "p">>  \* "n & p"
S_n_or_p == <<"n", " ", "|", "|", " ", "p">>  \* "n || p"
S_precedence == <<"x", " ", "&", "&", " ", "y", " ", "&", " ", "z", " ", "&", "&", " ", "w">>  \* "x && y & z && w"
S_ref_a == <<"$", "a">>  \* "$a"
S_ref_b == <<"$", "b">>  \* "$b"
S_ref_c == <<"$", "c">>  \* "$c"
S_ref_b_2 == <<"$", "b", " ", "2">>  \* "$b 2"
S_ref_c_3 == <<"$", "c", " ", "3">>  \* "$c 3"
S_p_and_ref_b == <<"p", " ", "&", "&", " ", "$", "b">>  \* "p && $b"
S_ref_b_amp_p == <<"$", "b", " ", "&", " ", "p">>  \* "$b & p"
S_ref_c_amp_ref_a == <<"$", "c", " ", "&", " ", "$", "a">>  \* "$c & $a"
S_ref_b_amp_ref_c == <<"$", "b", " ", "&", " ", "$", "c">>  \* "$b & $c"
S_two_refs == <<"$", "a", " ", "2", " ", "&", "&", " ", "$", "a", " ", "3">>  \* "$a 2 && $a 3"
S_empty == <<>>  \* ""
S_dangling == <<"p", " ", "&", "&">>  \* "p &&"

N_a == <<"a">>
N_b == <<"b">>
N_c == <<"c">>
N_t == <<"t">>
N_invalid == <<"a", " ", "b">>

Str(s) == [isArray |-> FALSE, items |-> <<s>>]
Arr(ss) == [isArray |-> TRUE, items |-> ss]
TaskCall(name, rawCommands) == [op |-> "task", name |-> name, rawCommands |-> rawCommands]
WatchCall(name) == [op |-> "watch", name |-> name, rawCommands |-> <<>>]
WatchSyncCall(name) == [op |-> "watchSync", name |-> name, rawCommands |-> <<>>]

\* Files that define the one task t by one definition string.
CombinatorDefs ==
  {S_p, S_q1, S_n, S_p_and_q, S_p_or_q, S_p_amp_q, S_p_pipe_q, S_n_and_p, S_p_and_n,
   S_n_amp_p, S_n_or_p, S_precedence}
WatchedDefs == {S_p, S_n, S_p_and_q, S_p_or_q, S_p_amp_q, S_n_amp_p}
SingleTaskFiles ==
  {<<TaskCall(N_t, <<Str(d)>>)>> : d \in CombinatorDefs}
  \cup {<<TaskCall(N_t, <<Str(d)>>), WatchCall(N_t)>> : d \in WatchedDefs}
  \cup {<<TaskCall(N_t, <<Str(d)>>), WatchSyncCall(N_t)>> : d \in WatchedDefs}

\* Files whose task() calls take several raw commands, none, or an unparsable one,
\* or repeat a name, or give a name with whitespace (src/test/test-task.ts).
ArgumentFiles ==
  { <<TaskCall(N_t, <<Str(S_p), Str(S_q1)>>)>>,
    <<TaskCall(N_t, <<Arr(<<S_p, S_q1>>)>>)>>,
    <<TaskCall(N_t, <<Str(S_p), Arr(<<S_q1, S_p>>), Str(S_n)>>)>>,
    <<TaskCall(N_t, <<Arr(<<>>)>>)>>,
    <<TaskCall(N_t, <<>>)>>,
    <<TaskCall(N_t, <<Str(S_empty)>>)>>,
    <<TaskCall(N_t, <<Str(S_dangling)>>)>>,
    <<TaskCall(N_t, <<Str(S_p), Str(S_dangling)>>)>>,
    <<TaskCall(N_invalid, <<Str(S_p)>>), TaskCall(N_a, <<Str(S_q1)>>)>>,
    <<TaskCall(N_a, <<Str(S_p)>>), TaskCall(N_a, <<Str(S_q1)>>)>>,
    <<TaskCall(N_a, <<Str(S_p)>>), WatchCall(N_a), TaskCall(N_a, <<Str(S_q1)>>)>>,
    <<TaskCall(N_a, <<Arr(<<S_p>>)>>), WatchCall(N_a), TaskCall(N_b, <<Arr(<<S_ref_a>>)>>),
      WatchCall(N_b)>> }

\* Files that define a, then possibly b and c, by definitions that refer to one
\* another (c is not defined: Absent), and files that decorate some of these with
\* watchers.
Absent == <<"-">>
DefsA == {S_ref_a, S_ref_b, S_ref_b_2, S_p_and_ref_b, S_ref_b_amp_p, S_q1}
DefsB == {Absent, S_p, S_q1, S_ref_a, S_ref_c, S_ref_c_3, S_p_and_q, S_p_amp_q, S_two_refs}
DefsC == {Absent, S_p, S_ref_a, S_p_and_q}
WatchedDefsA == {S_ref_a, S_ref_b, S_p_and_ref_b, S_ref_c_amp_ref_a, S_q1}
WatchedDefsB == {Absent, S_p, S_ref_a, S_ref_c, S_ref_c_3}
WatchedDefsC == {Absent, S_p, S_ref_a}
WatchParts ==
  { <<WatchCall(N_a)>>, <<WatchSyncCall(N_b)>>, <<WatchCall(N_a), WatchSyncCall(N_b)>>,
    <<WatchSyncCall(N_a), WatchCall(N_a)>>, <<WatchSyncCall(N_a), WatchCall(N_c)>> }
Define(name, d) == IF d = Absent THEN <<>> ELSE <<TaskCall(name, <<Str(d)>>)>>
ReferenceFiles ==
  { Define(N_a, da) \o Define(N_b, db) \o Define(N_c, dc) :
      da \in DefsA, db \in DefsB, dc \in DefsC }
WatchedReferenceFiles ==
  { Define(N_a, da) \o Define(N_b, db) \o Define(N_c, dc) \o wp :
      da \in WatchedDefsA, db \in WatchedDefsB, dc \in WatchedDefsC, wp \in WatchParts }

TaskFiles == SingleTaskFiles \cup ArgumentFiles \cup ReferenceFiles \cup WatchedReferenceFiles

\* The arguments of TaskRunner.run.
RunNames == {N_a, N_b, N_c, N_t}
RunArgs == {<<>>, << <<"x">> >>}

\* The change events delivered to the watchers of one run.
MaxEvents == 2

(***************************************************************************)
(* The state.                                                              *)
(***************************************************************************)
VARIABLES
  file,       \* the task file (an input; it does not change)
  pc,         \* the index in file of the next call
  tasks,      \* TaskRunner.tasks: name -> Command
  thrown,     \* what the last call of the file threw (NoError: nothing)
  phase,      \* "define" until TaskRunner.run is called, then "run"
  call,       \* the arguments of TaskRunner.run
  resolved,   \* resolvedCommand (line 267), or the error resolveRef threw
  procs,      \* the processes spawned, in spawn order
  frames,     \* the calls of Command.run made, by key
  resources,  \* the resource sets
  result,     \* how the promise of TaskRunner.run settled (Pending: not yet)
  watching,   \* the paths of the watchers consuming their change stream
  events,     \* the number of change events delivered
  source,     \* the string given to parse, when parse is called on its own
  parsed,     \* what that call returned or threw (NotParsed: not called)
  runs,       \* the number of calls of TaskRunner.run made
  earlier     \* the call of TaskRunner.run before this one, and what it spawned

vars == <<file, pc, tasks, thrown, phase, call, resolved, procs, frames, resources, result,
          watching, events, source, parsed, runs, earlier>>
parseVars == <<source, parsed>>
rerunVars == <<runs, earlier>>
runVars == <<resolved, procs, frames, resources, result, watching, events>>

NoError == [tag |-> "NoError", msg |-> "", what |-> <<>>, pid |-> 0]
NotResolved == [tag |-> "NotResolved"]
NoCall == [taskName |-> <<>>, args |-> <<>>]
NotParsed == [tag |-> "NotParsed"]
NoEarlier == [call |-> NoCall, spawned |-> {}]

Init ==
  /\ file \in TaskFiles
  /\ pc = 1
  /\ tasks = <<>>
  /\ thrown = NoError
  /\ phase = "define"
  /\ call = NoCall
  /\ resolved = NotResolved
  /\ procs = <<>>
  /\ frames = <<>>
  /\ resources = <<>>
  /\ result = Pending
  /\ watching = {}
  /\ events = 0
  /\ source = <<>>
  /\ parsed = NotParsed
  /\ runs = 0
  /\ earlier = NoEarlier

\* TaskRunner.task without the test of this.tasks[name] (lines 250-252).
taskThrowsUnlessNew(registry, name, rawCommands) ==
  IF Len(Split("space", name)) > 1 THEN Error("Task name is invalid.", name)
  ELSE IF IsError(makeCommand(rawCommands)) THEN makeCommand(rawCommands) ELSE NoError

\* TaskRunner.task, lines 246-255: what it throws, or NoError.
taskThrows(registry, name, rawCommands) ==
  IF Len(Split("space", name)) > 1 THEN Error("Task name is invalid.", name)
  ELSE IF name \in DOMAIN registry THEN Error("Task name is duplicated.", name)
  ELSE LET c == makeCommand(rawCommands) IN
       IF IsError(c) THEN c ELSE NoError

TaskRunner_task ==
  /\ phase = "define"
  /\ pc <= Len(file)
  /\ file[pc].op = "task"
  /\ LET name == file[pc].name
         rawCommands == file[pc].rawCommands
         e == taskThrows(tasks, name, rawCommands)
     IN /\ thrown' = e
        /\ tasks' = IF e = NoError THEN (name :> makeCommand(rawCommands)) @@ tasks ELSE tasks
  /\ pc' = pc + 1
  /\ UNCHANGED <<file, phase, call>>
  /\ UNCHANGED runVars
  /\ UNCHANGED parseVars
  /\ UNCHANGED rerunVars

\* TaskDecorator.watchSync / watch, lines 216-235.  The decorator exists only
\* when the task() call before it returned: otherwise the call is not made.
decorate(registry, name, kind) ==
  IF name \notin DOMAIN registry THEN registry
  ELSE [registry EXCEPT ![name] = IF kind = "watchSync" THEN SyncWatcher(@) ELSE AsyncWatcher(@)]

TaskDecorator_watchSync ==
  /\ phase = "define"
  /\ pc <= Len(file)
  /\ file[pc].op = "watchSync"
  /\ tasks' = decorate(tasks, file[pc].name, "watchSync")
  /\ pc' = pc + 1
  /\ UNCHANGED <<file, thrown, phase, call>>
  /\ UNCHANGED runVars
  /\ UNCHANGED parseVars
  /\ UNCHANGED rerunVars

TaskDecorator_watch ==
  /\ phase = "define"
  /\ pc <= Len(file)
  /\ file[pc].op = "watch"
  /\ tasks' = decorate(tasks, file[pc].name, "watch")
  /\ pc' = pc + 1
  /\ UNCHANGED <<file, thrown, phase, call>>
  /\ UNCHANGED runVars
  /\ UNCHANGED parseVars
  /\ UNCHANGED rerunVars

State == [root |-> resolved, procs |-> procs, frames |-> frames, resources |-> resources,
          result |-> result, watching |-> watching]

Becomes(st) ==
  /\ procs' = st.procs
  /\ frames' = st.frames
  /\ resources' = st.resources
  /\ result' = st.result
  /\ watching' = st.watching

\* The body of TaskRunner.run, lines 256-269: what one call settles with or
\* starts, and what resolving leaves in this.tasks.
TaskRunner_runBody(taskName, args) ==
  /\ call' = [taskName |-> taskName, args |-> args]
  /\ IF taskName \notin DOMAIN tasks
     THEN /\ result' = Error("Task not found.", taskName)
          /\ resolved' = NotResolved
          /\ procs' = <<>> /\ frames' = <<>> /\ resources' = <<>> /\ watching' = {}
          /\ tasks' = tasks
     ELSE LET resolveContext == [checked |-> {}, hasWatcher |-> FALSE]
              resolvedCommand == resolveRef(tasks[taskName], tasks, resolveContext)
          IN /\ resolved' = resolvedCommand
             /\ tasks' = tasksAfterResolve(tasks[taskName], tasks, {})
             /\ IF IsError(resolvedCommand)
                THEN /\ result' = resolvedCommand
                     /\ procs' = <<>> /\ frames' = <<>> /\ resources' = <<>> /\ watching' = {}
                ELSE Becomes(run([root |-> resolvedCommand, procs |-> <<>>, frames |-> <<>>,
                                  resources |-> (ContextResources :> {}), result |-> Pending,
                                  watching |-> {}],
                                 resolvedCommand, Key(<<>>, 0), args, ContextResources))

\* The first call of TaskRunner.run, once the task file has been read.
TaskRunner_run(taskName, args) ==
  /\ phase = "define"
  /\ pc > Len(file)
  /\ phase' = "run"
  /\ runs' = 1
  /\ earlier' = earlier
  /\ TaskRunner_runBody(taskName, args)
  /\ UNCHANGED <<file, pc, thrown, events>>
  /\ UNCHANGED parseVars

\* A spawned process exits, and Single.run observes it.
ProcessExit(pid, success) ==
  /\ phase = "run"
  /\ pid \in DOMAIN procs
  /\ procs[pid].status = "running"
  /\ Becomes(OnExit(State, pid, success))
  /\ UNCHANGED <<file, pc, tasks, thrown, phase, call, resolved, events>>
  /\ UNCHANGED parseVars
  /\ UNCHANGED rerunVars

\* The change stream of the watcher at `path` yields an event.
ChangeEvent(path) ==
  /\ phase = "run"
  /\ path \in watching
  /\ frames[Key(path, 0)].state = "waiting"
  /\ events < MaxEvents
  /\ events' = events + 1
  /\ Becomes(OnChange(State, Key(path, 0)))
  /\ UNCHANGED <<file, pc, tasks, thrown, phase, call, resolved>>
  /\ UNCHANGED parseVars
  /\ UNCHANGED rerunVars

Next ==
  \/ TaskRunner_task
  \/ TaskDecorator_watchSync
  \/ TaskDecorator_watch
  \/ \E taskName \in RunNames, args \in RunArgs : TaskRunner_run(taskName, args)
  \/ \E pid \in DOMAIN procs, success \in BOOLEAN : ProcessExit(pid, success)
  \/ \E path \in watching : ChangeEvent(path)

Spec == Init /\ [][Next]_vars

(***************************************************************************)
(* TaskRunner.run called again on the same runner, once the run before has *)
(* settled and its processes have exited (await runner.run(...) twice).    *)
(***************************************************************************)
\* The calls of TaskRunner.run made on one runner.
MaxRuns == 3

RerunDefsA == {S_q1, S_ref_b, S_ref_b_2, S_p_and_ref_b}
RerunDefsB == {Absent, S_q1, S_two_refs, S_ref_a, S_p_amp_q}
\* a refers to c directly and through b; c is a command, or refers back to a.
DiamondFiles ==
  {Define(N_a, S_ref_b_amp_ref_c) \o Define(N_b, S_ref_c_3) \o Define(N_c, dc) :
     dc \in {S_p, S_ref_a}}
RerunFiles ==
  {Define(N_a, da) \o Define(N_b, db) : da \in RerunDefsA, db \in RerunDefsB}
    \cup DiamondFiles

RerunInit ==
  /\ file \in RerunFiles
  /\ pc = 1
  /\ tasks = <<>>
  /\ thrown = NoError
  /\ phase = "define"
  /\ call = NoCall
  /\ resolved = NotResolved
  /\ procs = <<>>
  /\ frames = <<>>
  /\ resources = <<>>
  /\ result = Pending
  /\ watching = {}
  /\ events = 0
  /\ source = <<>>
  /\ parsed = NotParsed
  /\ runs = 0
  /\ earlier = NoEarlier

\* The keys and argument vectors of the processes ps.
Spawned(ps) == {<<ps[p].key, ps[p].args>> : p \in DOMAIN ps}

\* A further call of TaskRunner.run, lines 256-269.
TaskRunner_runAgain(taskName, args) ==
  /\ phase = "run"
  /\ runs < MaxRuns
  /\ result # Pending
  /\ \A p \in DOMAIN procs : procs[p].status # "running"
  /\ runs' = runs + 1
  /\ earlier' = [call |-> call, spawned |-> Spawned(procs)]
  /\ TaskRunner_runBody(taskName, args)
  /\ UNCHANGED <<file, pc, thrown, phase, events>>
  /\ UNCHANGED parseVars

RerunNext ==
  \/ TaskRunner_task
  \/ \E taskName \in RunNames, args \in RunArgs : TaskRunner_run(taskName, args)
  \/ \E pid \in DOMAIN procs, success \in BOOLEAN : ProcessExit(pid, success)
  \/ \E taskName \in RunNames, args \in RunArgs : TaskRunner_runAgain(taskName, args)

RerunSpec == RerunInit /\ [][RerunNext]_vars

(***************************************************************************)
(* parse called on its own (src/test/test.ts, lines 7-34).                 *)
(*                                                                         *)
(* An input is written from a skeleton, the alternation of command texts   *)
(* and operators, and a padding: the number of blanks put before each      *)
(* operator, after each operator, and at both ends of the string.          *)
(***************************************************************************)
A_a == <<"a">>
A_b == <<"b">>
A_c == <<"c">>
A_d == <<"d">>
A_a1 == <<"a", " ", "1">>  \* "a 1"
A_b2 == <<"b", " ", "2">>  \* "b 2"
A_e1 == <<"e", "1">>
A_e2 == <<"e", "2">>
A_o1 == <<"o", "1">>
A_o2 == <<"o", "2">>
O_lt == <<"<">>
O_gt == <<">">>
O_amp == <<"&">>
O_pipe == <<"|">>
O_and == <<"&", "&">>
O_or == <<"|", "|">>
O_append == <<">", ">">>
O_pipe_amp == <<"|", "&">>
Operators == {O_lt, O_gt, O_amp, O_pipe, O_and, O_or}

Blanks(n) == [i \in 1..n |-> " "]

\* The string of a skeleton under a padding.
RECURSIVE RenderFrom(_, _, _, _)
RenderFrom(sk, i, before, after) ==
  IF i > Len(sk) THEN <<>>
  ELSE (IF i % 2 = 0 THEN Blanks(before) \o sk[i] \o Blanks(after) ELSE sk[i])
       \o RenderFrom(sk, i + 1, before, after)
Render(sk, pad) ==
  Blanks(pad.ends) \o RenderFrom(sk, 1, pad.before, pad.after) \o Blanks(pad.ends)

Paddings == [before : {0, 1}, after : {0, 1}, ends : {0, 1}]

\* Well-formed skeletons: a command text on both sides of every operator.
Skeletons ==
  { <<A_a>>, <<A_a1>>,
    <<A_a1, O_and, A_b2>>, <<A_a, O_or, A_b>>, <<A_a, O_amp, A_b>>, <<A_a, O_pipe, A_b>>,
    <<A_c, O_lt, A_e1>>, <<A_c, O_gt, A_o1>>,
    <<A_c, O_lt, A_e1, O_gt, A_o1>>, <<A_c, O_gt, A_o1, O_lt, A_e1>>,
    <<A_c, O_lt, A_e1, O_lt, A_e2>>, <<A_c, O_gt, A_o1, O_gt, A_o2>>,
    <<A_c, O_lt, A_e1, O_gt, A_o1, O_lt, A_e2>>, <<A_c, O_gt, A_o1, O_lt, A_e1, O_gt, A_o2>>,
    <<A_a, O_and, A_b, O_amp, A_c, O_and, A_d>>,
    <<A_a1, O_and, A_b2, O_pipe, A_c, O_gt, A_o1, O_lt, A_e1, O_amp, A_d, O_or, A_a>>,
    <<A_a, O_append, A_b>>, <<A_a, O_pipe_amp, A_b>>,
    <<A_a, O_append, A_b, O_pipe_amp, A_c>>, <<A_a, O_and, A_b, O_append, A_o1>> }

\* The malformed inputs of the operator op (src/test/test.ts, lines 13-23).
Malformed(op) ==
  { op,
    A_a \o Blanks(1) \o op,
    A_a \o op,
    op \o Blanks(1) \o A_b,
    op \o A_b,
    A_a \o Blanks(1) \o op \o Blanks(1) \o op \o Blanks(1) \o A_b,
    A_a \o op \o Blanks(1) \o op \o A_b }

\* Two operators written one after the other with nothing between.
Adjacent == {A_a \o op1 \o op2 \o A_b : op1 \in Operators, op2 \in Operators}

\* Inputs that hold an unsupported operator and are malformed besides.
UnsupportedInputs ==
  { O_append, O_pipe_amp, A_a \o O_append, O_pipe_amp \o A_b,
    A_a \o Blanks(1) \o O_pipe_amp \o Blanks(1) \o O_and,
    A_a \o O_append \o O_gt \o A_b }

ParseInputs ==
  {Render(sk, pad) : sk \in Skeletons, pad \in Paddings}
    \cup UNION {Malformed(op) : op \in Operators}
    \cup Adjacent
    \cup UnsupportedInputs
    \cup {<<>>, Blanks(1)}

ParseInit ==
  /\ source \in ParseInputs
  /\ parsed = NotParsed
  /\ file = <<>>
  /\ pc = 1
  /\ tasks = <<>>
  /\ thrown = NoError
  /\ phase = "define"
  /\ call = NoCall
  /\ resolved = NotResolved
  /\ procs = <<>>
  /\ frames = <<>>
  /\ resources = <<>>
  /\ result = Pending
  /\ watching = {}
  /\ events = 0
  /\ runs = 0
  /\ earlier = NoEarlier

\* parse(source), lines 11-24 of src/parser.ts.
ParseCall ==
  /\ parsed.tag = "NotParsed"
  /\ parsed' = parse(source)
  /\ UNCHANGED <<file, pc, tasks, thrown, phase, call, resolved, procs, frames, resources,
                 result, watching, events, source>>
  /\ UNCHANGED rerunVars

ParseNext == ParseCall

ParseSpec == ParseInit /\ [][ParseNext]_vars

(***************************************************************************)
(* The vocabulary of the properties.                                       *)
(***************************************************************************)
\* The definition string of a task() call that gave one string, else Absent.
SoleString(c) ==
  IF c.op = "task" /\ Len(c.rawCommands) = 1 /\ ~c.rawCommands[1].isArray
  THEN c.rawCommands[1].items[1] ELSE Absent

\* The definition strings by which the file registered the task `name`.
DefinitionsOf(name) ==
  {d \in {SoleString(file[i]) : i \in {j \in 1..Len(file) : file[j].name = name}} :
     /\ d # Absent
     /\ name \in DOMAIN tasks
     /\ tasks[name] = makeCommand(<<Str(d)>>)}
CalledDefinitions == DefinitionsOf(call.taskName)

\* d reads "a op b" with op a sequence operator and a, b atomic commands.
SequenceFormOf(ast, op) ==
  /\ ast.tag = "Branch"
  /\ ast.op = op
  /\ ast.left.tag = "Leaf"
  /\ ast.left.value.tag = "Leaf"
  /\ ast.right.tag = "Leaf"
SequenceForm(d, op) == SequenceFormOf(parse(d), op)

\* d reads "a & b" or "a | b" with a, b atomic commands.
ParallelFormOf(ast) ==
  /\ ast.tag = "Leaf"
  /\ ast.value.tag = "Branch"
  /\ ast.value.left.tag = "Leaf"
ParallelForm(d) == ParallelFormOf(parse(d))

TwoSingles(cmd) ==
  /\ Len(cmd.commands) = 2
  /\ cmd.commands[1].tag = "Single"
  /\ cmd.commands[2].tag = "Single"

ProcsAt(path) == {p \in DOMAIN procs : procs[p].key.path = path}
ProcsNamed(name) == {p \in DOMAIN procs : procs[p].args[1] = name}
StatusOutcome(p) ==
  CASE procs[p].status = "running" -> Pending
    [] procs[p].status = "succeeded" -> Ok
    [] procs[p].status = "failed" -> ProcessError(p)
BranchKey(k) == Key(<<k>>, 0)

\* The references written in a command, and the task names they give.
RECURSIVE RefNodes(_)
RefNodes(cmd) ==
  CASE cmd.tag = "Ref" -> {cmd}
    [] cmd.tag = "Single" -> {}
    [] cmd.tag \in {"Sequence", "Parallel"} ->
         UNION {RefNodes(cmd.commands[i]) : i \in 1..Len(cmd.commands)}
    [] cmd.tag \in {"SyncWatcher", "AsyncWatcher"} -> RefNodes(cmd.command)
RefNames(cmd) == {r.name : r \in RefNodes(cmd)}

\* The task names a chain of references from the command reaches.
Step(names, registry) ==
  names \cup UNION {RefNames(registry[n]) : n \in names \cap DOMAIN registry}
RECURSIVE Closure(_, _)
Closure(names, registry) ==
  IF Step(names, registry) = names THEN names ELSE Closure(Step(names, registry), registry)
Reachable(cmd, registry) == Closure(RefNames(cmd), registry)

OnCycle(n, registry) == n \in DOMAIN registry /\ n \in Reachable(registry[n], registry)
HasReferenceLoop(cmd, registry) == \E n \in Reachable(cmd, registry) : OnCycle(n, registry)
AllDefined(cmd, registry) == Reachable(cmd, registry) \subseteq DOMAIN registry

\* Every reference a chain of references from the command reaches.
ReachableRefNodes(cmd, registry) ==
  RefNodes(cmd)
    \cup UNION {RefNodes(registry[n]) : n \in Reachable(cmd, registry) \cap DOMAIN registry}

\* A reference with arguments to a task whose root is a Sequence or a Parallel.
IllegalPassThrough(cmd, registry) ==
  \E r \in ReachableRefNodes(cmd, registry) :
     /\ r.args # <<>>
     /\ r.name \in DOMAIN registry
     /\ registry[r.name].tag \in {"Sequence", "Parallel"}

\* The command holds a watcher, in itself or behind references.
RECURSIVE ContainsWatcher(_, _, _)
ContainsWatcher(cmd, registry, visited) ==
  CASE cmd.tag \in {"SyncWatcher", "AsyncWatcher"} -> TRUE
    [] cmd.tag = "Single" -> FALSE
    [] cmd.tag \in {"Sequence", "Parallel"} ->
         \E i \in 1..Len(cmd.commands) : ContainsWatcher(cmd.commands[i], registry, visited)
    [] cmd.tag = "Ref" ->
         /\ cmd.name \in DOMAIN registry
         /\ cmd.name \notin visited
         /\ ContainsWatcher(registry[cmd.name], registry, visited \cup {cmd.name})

\* The command holds, in itself or behind references, a watcher that wraps a
\* command holding a watcher.
RECURSIVE HasNestedWatcher(_, _, _)
HasNestedWatcher(cmd, registry, visited) ==
  CASE cmd.tag \in {"SyncWatcher", "AsyncWatcher"} -> ContainsWatcher(cmd.command, registry, {})
    [] cmd.tag = "Single" -> FALSE
    [] cmd.tag \in {"Sequence", "Parallel"} ->
         \E i \in 1..Len(cmd.commands) : HasNestedWatcher(cmd.commands[i], registry, visited)
    [] cmd.tag = "Ref" ->
         /\ cmd.name \in DOMAIN registry
         /\ cmd.name \notin visited
         /\ HasNestedWatcher(registry[cmd.name], registry, visited \cup {cmd.name})

\* TaskRunner.run was called on a registered task.
RanRegistered == phase = "run" /\ call.taskName \in DOMAIN tasks
CalledCommand == tasks[call.taskName]

\* The run failed while resolving: nothing was run, spawned or watched.
FailedResolving ==
  /\ IsError(resolved)
  /\ result = resolved
  /\ procs = <<>>
  /\ frames = <<>>
  /\ watching = {}

(***************************************************************************)
(* C1: "a && b".                                                           *)
(***************************************************************************)
C1_Case ==
  /\ phase = "run"
  /\ resolved.tag = "Sequence"
  /\ \E d \in CalledDefinitions : SequenceForm(d, <<"&", "&">>)
  /\ TwoSingles(resolved)

\* C1: for a task defined as "a && b" and run: when the process of a has failed,
\* no process of b exists and the run has failed with the ProcessError of a's
\* process; a process of b exists only once a process of a has succeeded; and once
\* a has succeeded the run's outcome is b's outcome (pending while b runs, success
\* or the ProcessError of b's process after its exit, b's spawn error if b could
\* not be spawned).
C1_SequenceStopsOnFailure ==
  C1_Case =>
    /\ \A i \in ProcsAt(<<1>>) :
         /\ (procs[i].status = "failed") =>
              (ProcsAt(<<2>>) = {} /\ result = ProcessError(i))
         /\ (procs[i].status = "succeeded") =>
              /\ BranchKey(2) \in DOMAIN frames
              /\ result = frames[BranchKey(2)].outcome
              /\ \A j \in ProcsAt(<<2>>) : result = StatusOutcome(j)
              /\ (ProcsAt(<<2>>) = {}) =>
                   (result = Error("Command not found.", resolved.commands[2].name))
    /\ \A j \in ProcsAt(<<2>>) :
         \E i \in ProcsAt(<<1>>) : i < j /\ procs[i].status = "succeeded"

\* a has failed: b was not spawned and the run failed with a's error.
C1_Witness ==
  /\ C1_Case
  /\ \E i \in ProcsAt(<<1>>) : procs[i].status = "failed" /\ result = ProcessError(i)

(***************************************************************************)
(* C2: "a || b".                                                           *)
(***************************************************************************)
C2_Case ==
  /\ phase = "run"
  /\ resolved.tag = "Sequence"
  /\ \E d \in CalledDefinitions : SequenceForm(d, <<"|", "|">>)
  /\ TwoSingles(resolved)

\* C2: for a task defined as "a || b" and run: when the process of a has failed,
\* b has been started and the run's outcome is b's outcome.
C2_OrRunsSecondAfterFailure ==
  C2_Case =>
    \A i \in ProcsAt(<<1>>) :
       (procs[i].status = "failed") =>
         /\ BranchKey(2) \in DOMAIN frames
         /\ result = frames[BranchKey(2)].outcome

(***************************************************************************)
(* C3: "a & b" and "a | b".                                                *)
(***************************************************************************)
C3_CaseOf(ph, cmd, c) ==
  /\ ph = "run"
  /\ cmd.tag = "Parallel"
  /\ c.args = <<>>
  /\ \E d \in DefinitionsOf(c.taskName) : ParallelForm(d)
  /\ TwoSingles(cmd)
C3_Case == C3_CaseOf(phase, resolved, call)

C3_Outcome ==
  \* both branches are started, and spawned when their program can be
  /\ \A k \in {1, 2} :
       /\ BranchKey(k) \in DOMAIN frames
       /\ (resolved.commands[k].name \notin NotInstalled) => (ProcsAt(<<k>>) # {})
  \* no termination request is issued, and a running process is still awaited
  /\ \A p \in DOMAIN procs :
       /\ ~procs[p].killed
       /\ ProcessCloser(p) \in resources[procs[p].resources] <=> procs[p].status = "running"
       /\ (procs[p].status = "running") => (frames[procs[p].key].state = "running")
  \* the run fails exactly when a branch failed, with the error of a branch
  /\ IsError(result) <=> \E k \in {1, 2} : IsError(frames[BranchKey(k)].outcome)
  /\ IsError(result) => \E k \in {1, 2} : result = frames[BranchKey(k)].outcome
  /\ (result = Ok) <=> \A k \in {1, 2} : frames[BranchKey(k)].outcome = Ok

\* The run's outcome is set once, by the branch that settles in that step.
C3_Step ==
  (C3_CaseOf(phase', resolved', call') /\ result' # result) =>
    /\ result = Pending
    /\ \E k \in {1, 2} :
         /\ frames'[BranchKey(k)].outcome = result'
         /\ (BranchKey(k) \notin DOMAIN frames \/ frames[BranchKey(k)].outcome = Pending)

\* C3: for a task defined as "a & b" or "a | b" and run with no extra arguments,
\* outside a watcher, in every interleaving of the exits: both branches are
\* started (each spawned when its program exists), no process is ever asked to
\* terminate and each stays awaited until its own exit, the run fails exactly
\* when a branch failed, and its error is that of the first failure observed:
\* the outcome is set once, by the branch settling at that moment.
C3_ParallelRunsBoth ==
  [][(C3_CaseOf(phase', resolved', call') => C3_Outcome') /\ C3_Step]_vars

\* One branch has failed and failed the run while the other still runs, unkilled.
C3_Witness ==
  /\ C3_Case
  /\ IsError(result)
  /\ \E p, q \in DOMAIN procs :
       /\ procs[p].status = "failed"
       /\ procs[q].status = "running"
       /\ ~procs[q].killed

(***************************************************************************)
(* C4: precedence, "x && y & z && w".                                      *)
(***************************************************************************)
C4_Case ==
  /\ phase = "run"
  /\ file = <<TaskCall(N_t, <<Str(S_precedence)>>)>>
  /\ call = [taskName |-> N_t, args |-> <<>>]

AllSucceeded(ps) == \A p \in ps : procs[p].status = "succeeded"

\* C4: "x && y & z && w" is ((x && (y & z)) && w): the run spawns x first; y and
\* z are spawned together, exactly when x has exited successfully; w is spawned
\* exactly when y and z have both exited successfully, so that w never runs
\* beside x, y or z.
C4_Precedence ==
  C4_Case =>
    LET X == ProcsNamed(<<"x">>)
        Y == ProcsNamed(<<"y">>)
        Z == ProcsNamed(<<"z">>)
        W == ProcsNamed(<<"w">>)
    IN /\ resolved = Sequence(<<Sequence(<<Single(<<"x">>, <<>>),
                                            Parallel(<<Single(<<"y">>, <<>>),
                                                       Single(<<"z">>, <<>>)>>)>>),
                                 Single(<<"w">>, <<>>)>>)
       /\ X = {1}
       /\ Cardinality(Y) <= 1 /\ Cardinality(Z) <= 1 /\ Cardinality(W) <= 1
       /\ (Y # {}) <=> (Z # {})
       /\ (Y # {}) <=> AllSucceeded(X)
       /\ (W # {}) <=> (Y # {} /\ Z # {} /\ AllSucceeded(X \cup Y \cup Z))
       /\ \A w \in W : \A p \in X \cup Y \cup Z : p < w /\ procs[p].status # "running"

\* w has been spawned.
C4_Witness == C4_Case /\ ProcsNamed(<<"w">>) # {} /\ ProcsNamed(<<"z">>) # {}

(***************************************************************************)
(* C5: reference loops.                                                    *)
(***************************************************************************)
C5_Case == RanRegistered /\ HasReferenceLoop(CalledCommand, tasks)

\* C5 as stated: when a chain of references from the task that is run comes back
\* to a task already on the chain, the run fails with the reference-loop error
\* naming a task on the loop, and no process is spawned.
C5_LoopErrorAlways ==
  C5_Case =>
    /\ result.msg = "Task is in a reference loop."
    /\ OnCycle(result.what, tasks)
    /\ procs = <<>>

\* C5, amended: when a chain of references from the task that is run comes back
\* to a task already on the chain, the run fails while resolving, before anything
\* is run or spawned, with the error resolution meets first; that error is the
\* reference-loop error, naming a task on a loop, when every task referred to is
\* defined and no watcher wraps a watcher.
C5_LoopFailsResolution ==
  C5_Case =>
    /\ FailedResolving
    /\ (AllDefined(CalledCommand, tasks) /\ ~HasNestedWatcher(CalledCommand, tasks, {})) =>
         /\ result.msg = "Task is in a reference loop."
         /\ OnCycle(result.what, tasks)

\* A loop that goes through a second task, reported as such.
C5_Witness ==
  /\ C5_Case
  /\ result.msg = "Task is in a reference loop."
  /\ result.what # call.taskName
  /\ procs = <<>>

(***************************************************************************)
(* C6: nested watchers.                                                    *)
(***************************************************************************)
C6_Case == RanRegistered /\ HasNestedWatcher(CalledCommand, tasks, {})

\* C6 as stated: when the command of the task that is run holds a watcher that
\* wraps another watcher, directly or behind references, the run fails with the
\* nested-watchers error, no process is spawned and no change stream is opened.
C6_NestedErrorAlways ==
  C6_Case =>
    /\ result.msg = "Nested watchers not supported."
    /\ procs = <<>>
    /\ watching = {}

\* C6, amended: when the command of the task that is run holds a watcher that
\* wraps another watcher, directly or behind references, the run fails while
\* resolving, before anything is run, spawned or watched, with the error
\* resolution meets first; that error is the nested-watchers error when every
\* task referred to is defined and no chain of references loops.
C6_NestedFailsResolution ==
  C6_Case =>
    /\ FailedResolving
    /\ (AllDefined(CalledCommand, tasks) /\ ~HasReferenceLoop(CalledCommand, tasks)) =>
         (result.msg = "Nested watchers not supported.")

\* A watcher that wraps a reference to a watched task, reported as nested.
C6_Witness ==
  /\ C6_Case
  /\ CalledCommand.tag \in {"SyncWatcher", "AsyncWatcher"}
  /\ CalledCommand.command.tag = "Ref"
  /\ ~HasReferenceLoop(CalledCommand, tasks)
  /\ result.msg = "Nested watchers not supported."
  /\ procs = <<>>

(***************************************************************************)
(* C7: resolution failures precede side effects.                           *)
(***************************************************************************)
\* C7: when the task that is run is not registered, or a reference reachable from
\* it names an unregistered task, or loops, or passes arguments to a task whose
\* root is a Sequence or a Parallel, the run fails and spawns no process.
C7_ResolutionFailsFirst ==
  (/\ phase = "run"
   /\ \/ call.taskName \notin DOMAIN tasks
      \/ ~AllDefined(CalledCommand, tasks)
      \/ HasReferenceLoop(CalledCommand, tasks)
      \/ IllegalPassThrough(CalledCommand, tasks))
  => (IsError(result) /\ procs = <<>>)

(***************************************************************************)
(* C8: the argument vector.                                                *)
(***************************************************************************)
\* The argument vector C8 states for a chain of references that ends in an atom:
\* the program, the atom's arguments, the arguments of each reference site.
RECURSIVE ExpectedArgv(_)
ExpectedArgv(cmd) ==
  IF cmd.tag = "Single" THEN <<cmd.name>> \o cmd.args
  ELSE ExpectedArgv(tasks[cmd.name]) \o cmd.args

\* C8: when the task that is run resolves to one atom, the process is spawned
\* with the program, the atom's own arguments, the arguments written at the
\* reference sites that led to it, and the arguments of the run, in that order.
C8_ArgumentVector ==
  (RanRegistered /\ resolved.tag = "Single") =>
    \A p \in DOMAIN procs : procs[p].args = ExpectedArgv(CalledCommand) \o call.args

(***************************************************************************)
(* C9: arguments to a Sequence or a Parallel.                              *)
(***************************************************************************)
C9_Case == phase = "run" /\ resolved.tag \in {"Sequence", "Parallel"}

CannotPassArgs(cmd) ==
  Error(IF cmd.tag = "Sequence" THEN "Cannot pass args to sequential tasks."
        ELSE "Cannot pass args to parallel tasks.", <<>>)

\* C9: when the resolved root of the task that is run is a Sequence or a
\* Parallel, a run with arguments fails with the cannot-pass-args error of that
\* node and spawns no process, also when the task is a reference to such a task;
\* a run without arguments starts the node's commands and never fails with that
\* error.
C9_ArgsToComposite ==
  C9_Case =>
    IF call.args # <<>>
    THEN result = CannotPassArgs(resolved) /\ procs = <<>>
    ELSE /\ result.msg \notin {"Cannot pass args to sequential tasks.",
                               "Cannot pass args to parallel tasks."}
         /\ (Len(resolved.commands) > 0) => (BranchKey(1) \in DOMAIN frames)

\* A reference to a sequence, run with arguments, has failed.
C9_Witness ==
  /\ C9_Case
  /\ CalledCommand.tag = "Ref"
  /\ resolved.tag = "Sequence"
  /\ call.args # <<>>
  /\ result = CannotPassArgs(resolved)

(***************************************************************************)
(* C10: arguments at a reference to a Sequence or a Parallel.              *)
(***************************************************************************)
\* C10: when the task that is run is a reference with arguments to a task whose
\* root is a Sequence or a Parallel, resolution fails and no process is spawned.
C10_ReferenceArgsRejected ==
  (/\ RanRegistered
   /\ CalledCommand.tag = "Ref"
   /\ CalledCommand.args # <<>>
   /\ CalledCommand.name \in DOMAIN tasks
   /\ tasks[CalledCommand.name].tag \in {"Sequence", "Parallel"})
  => (IsError(resolved) /\ procs = <<>>)

(***************************************************************************)
(* C11: the registry under TaskRunner.task.                                *)
(***************************************************************************)
HasWhitespace(name) == \E i \in 1..Len(name) : name[i] = " "

\* The raw commands are none, or hold a string parse rejects (the empty one too).
NoUsableCommand(rawCommands) ==
  \/ Len(rawCommands) = 0
  \/ \E i \in 1..Len(rawCommands) :
       \E j \in 1..Len(rawCommands[i].items) : IsError(parse(rawCommands[i].items[j]))

C11_Step ==
  (pc' = pc + 1 /\ pc <= Len(file) /\ file[pc].op = "task") =>
    /\ HasWhitespace(file[pc].name) =>
         (thrown' = Error("Task name is invalid.", file[pc].name))
    /\ (file[pc].name \in DOMAIN tasks) =>
         (thrown' = Error("Task name is duplicated.", file[pc].name))
    /\ NoUsableCommand(file[pc].rawCommands) => IsError(thrown')
    /\ IsError(thrown') => (tasks' = tasks)
    /\ ~IsError(thrown') =>
         /\ DOMAIN tasks' = DOMAIN tasks \cup {file[pc].name}
         /\ \A n \in DOMAIN tasks : tasks'[n] = tasks[n]
    /\ \A n \in DOMAIN tasks' : ~HasWhitespace(n)

\* C11: at every call of TaskRunner.task: a name with whitespace is refused with
\* the invalid-name error, a name already registered with the duplicate-name
\* error, a call with no command or with an empty or unparsable command string
\* fails; a failed call leaves the registry as it was, a successful one adds its
\* name and changes no other entry; no registered name holds whitespace.
C11_RegistryKept == [][C11_Step]_vars

\* A second task() call of a registered name has failed and the first definition
\* is still the registered one.
C11_Witness ==
  /\ thrown = Error("Task name is duplicated.", N_a)
  /\ pc = 3
  /\ file[2].rawCommands = <<Str(S_q1)>>
  /\ tasks[N_a] = Single(<<"p">>, <<>>)

(***************************************************************************)
(* C12: whitespace around operators and at the ends.                       *)
(***************************************************************************)
SameParse(x, y) == IF IsError(x) \/ IsError(y) THEN IsError(x) /\ IsError(y) ELSE x = y
NoPadding == [before |-> 0, after |-> 0, ends |-> 0]

\* C12: two strings written from the same command texts and operators, with
\* different blanks before and after the operators and at the ends, both fail to
\* parse or parse to equal trees (shape, operators, command texts, redirect
\* targets).
C12_WhitespaceInsensitive ==
  (parsed.tag # "NotParsed") =>
    \A sk \in Skeletons : \A p1 \in Paddings :
      (source = Render(sk, p1)) =>
        \A p2 \in Paddings : SameParse(parsed, parse(Render(sk, p2)))

\* A padded string of several operators and a redirect has parsed to the tree of
\* its unpadded form.
C12_Witness ==
  /\ parsed.tag = "Branch"
  /\ \E sk \in Skeletons : \E p1 \in Paddings :
       /\ Len(sk) > 5
       /\ p1.before = 1 /\ p1.ends = 1
       /\ source = Render(sk, p1)
       /\ source # Render(sk, NoPadding)
       /\ parsed = parse(Render(sk, NoPadding))

(***************************************************************************)
(* C13: malformed inputs.                                                  *)
(***************************************************************************)
\* The characters of op1 and op2 written together are two operator tokens, and
\* not the one operator && or ||.
TwoTokens(op1, op2) == op1 \o op2 \notin Operators

MalformedInputs ==
  {<<>>} \cup UNION {Malformed(op) : op \in Operators}
    \cup {A_a \o pair[1] \o pair[2] \o A_b :
            pair \in {pr \in Operators \X Operators : TwoTokens(pr[1], pr[2])}}

\* C13: parse fails on the empty string and, for every operator, on the operator
\* alone, with nothing on its right, with nothing on its left, and on two
\* operator tokens with only blanks or nothing between them; && and || written
\* between two commands are one token each and give the sequence of the two.
C13_MalformedFails ==
  (parsed.tag # "NotParsed") =>
    /\ (source \in MalformedInputs) => IsError(parsed)
    /\ (source \in {A_a \o O_and \o A_b, A_a \o O_or \o A_b}) =>
         /\ parsed.tag = "Branch"
         /\ parsed.op = SubSeq(source, 2, 3)
         /\ parsed.right.value.command = A_b

\* "a&&&&b" has been refused.
C13_Witness ==
  /\ source = A_a \o O_and \o O_and \o A_b
  /\ parsed = Error("Invalid command", source)

(***************************************************************************)
(* C14: unsupported operators.                                             *)
(***************************************************************************)
HasUnsupported(s) ==
  \E i \in 1..(Len(s) - 1) : <<s[i], s[i + 1]>> \in {O_append, O_pipe_amp}

\* The unsupported tokens of s from position i, left to right, blank-separated.
RECURSIVE UnsupportedFrom(_, _)
UnsupportedFrom(s, i) ==
  IF i >= Len(s) THEN <<>>
  ELSE IF <<s[i], s[i + 1]>> \in {O_append, O_pipe_amp}
       THEN IF UnsupportedFrom(s, i + 2) = <<>> THEN <<s[i], s[i + 1]>>
            ELSE <<s[i], s[i + 1], " ">> \o UnsupportedFrom(s, i + 2)
       ELSE UnsupportedFrom(s, i + 1)

\* C14: a string that holds >> or |& makes parse fail with the
\* unsupported-operator error naming those tokens, whatever else is wrong with
\* the string; no tree is returned.
C14_UnsupportedFirst ==
  (parsed.tag # "NotParsed" /\ HasUnsupported(source)) =>
    parsed = Error("Unsupported operator", UnsupportedFrom(source, 1))

\* A string both unsupported and malformed was refused as unsupported.
C14_Witness ==
  /\ source = A_a \o Blanks(1) \o O_pipe_amp \o Blanks(1) \o O_and
  /\ parsed = Error("Unsupported operator", O_pipe_amp)

(***************************************************************************)
(* C18: several redirects of one direction.                                *)
(***************************************************************************)
\* The skeletons of one command and its redirects.
RedirectSkeletons ==
  {sk \in Skeletons :
     /\ Len(sk) >= 3
     /\ \A i \in 1..Len(sk) : (i % 2 = 0) => sk[i] \in {O_lt, O_gt}}

Positions(sk, op) == {i \in 1..Len(sk) : i % 2 = 0 /\ sk[i] = op}
Nearest(sk, op) == sk[(CHOOSE i \in Positions(sk, op) : \A j \in Positions(sk, op) : i <= j) + 1]
Furthest(sk, op) == sk[(CHOOSE i \in Positions(sk, op) : \A j \in Positions(sk, op) : i >= j) + 1]

\* The command record of a tree that is one command.
SoleCommand(tree) == tree.value.value

\* C18 as stated, for the input direction: of several < redirects of one
\* command, the recorded input is the target nearest the command text.
C18_NearestInputWins ==
  (parsed.tag # "NotParsed") =>
    \A sk \in RedirectSkeletons : \A pad \in Paddings :
      (source = Render(sk, pad) /\ Positions(sk, O_lt) # {}) =>
        SoleCommand(parsed).input = Nearest(sk, O_lt)

\* C18, amended: of several < redirects of one command, the recorded input is
\* the target furthest from the command text, the one written last, whatever >
\* redirects stand between, before or after them; the command text is the text
\* before the first redirect.
C18_LastInputWins ==
  (parsed.tag # "NotParsed") =>
    \A sk \in RedirectSkeletons : \A pad \in Paddings :
      (source = Render(sk, pad)) =>
        /\ parsed.tag = "Leaf"
        /\ SoleCommand(parsed).command = sk[1]
        /\ (Positions(sk, O_lt) # {}) => SoleCommand(parsed).input = Furthest(sk, O_lt)
        /\ (Positions(sk, O_lt) = {}) => SoleCommand(parsed).input = Undefined

\* "c<e1>o1<e2" has parsed, and its input is e2.
C18_Witness ==
  /\ source = Render(<<A_c, O_lt, A_e1, O_gt, A_o1, O_lt, A_e2>>, NoPadding)
  /\ parsed.tag = "Leaf"
  /\ SoleCommand(parsed).input = A_e2

(***************************************************************************)
(* C17: output redirects.                                                  *)
(***************************************************************************)
\* C17: a command written with one output redirect parses to a command whose
\* output is the target written, and compiles to an atom whose outputPath is
\* that target.
C17_OutputRecorded ==
  (parsed.tag # "NotParsed"
     /\ \E pad \in Paddings : source = Render(<<A_c, O_gt, A_o1>>, pad)) =>
    /\ SoleCommand(parsed).output = A_o1
    /\ "outputPath" \in DOMAIN makeCommand(<<Str(source)>>)
    /\ makeCommand(<<Str(source)>>).outputPath = A_o1

(***************************************************************************)
(* C19: when a Parallel settles.                                           *)
(***************************************************************************)
\* C19: the run of a task that resolves to a Parallel reports its outcome only
\* once every process spawned under the Parallel has exited.
C19_SettlesAfterBoth ==
  (phase = "run" /\ resolved.tag = "Parallel" /\ result # Pending) =>
    \A p \in DOMAIN procs : procs[p].status # "running"

(***************************************************************************)
(* C15: SyncWatcher.                                                       *)
(***************************************************************************)
\* C15: under a SyncWatcher no termination request is ever issued: whenever a
\* change event is handled, every process of the previous run has exited.
C15_SyncNeverKills ==
  (phase = "run" /\ resolved.tag = "SyncWatcher") =>
    \A p \in DOMAIN procs : ~procs[p].killed

(***************************************************************************)
(* C16: AsyncWatcher.                                                      *)
(***************************************************************************)
NewProcs == {p \in DOMAIN procs' : p \notin DOMAIN procs}

\* The step in which TaskRunner.run activates an AsyncWatcher.
C16_Activation ==
  (phase = "define" /\ phase' = "run" /\ resolved'.tag = "AsyncWatcher") =>
    /\ Key(<<1>>, 1) \in DOMAIN frames'
    /\ frames'[Key(<<>>, 0)].state = "waiting"
    /\ <<>> \in watching'
    /\ result' = Pending
    /\ resources'[ChildResources(<<>>)] = {ProcessCloser(p) : p \in NewProcs}

\* The step in which the AsyncWatcher at `path` handles a change event.
C16_Event(path) ==
  (/\ events' = events + 1
   /\ NodeAt(resolved, path).tag = "AsyncWatcher"
   /\ frames'[Key(path, 0)].iter = frames[Key(path, 0)].iter + 1) =>
    \* every registered process is sent the termination request, and no other
    /\ \A p \in DOMAIN procs :
         IF ProcessCloser(p) \in resources[ChildResources(path)]
         THEN procs'[p] = [procs[p] EXCEPT !.killed = TRUE]
         ELSE procs'[p] = procs[p]
    \* the set was emptied before the new run registered its processes
    /\ resources'[ChildResources(path)] = {ProcessCloser(p) : p \in NewProcs}
    /\ \A p \in NewProcs : ~procs'[p].killed /\ procs'[p].key.iter = frames'[Key(path, 0)].iter
    \* the new run is started, nothing is waited for, the watcher goes on watching
    /\ Key(path \o <<1>>, frames'[Key(path, 0)].iter) \in DOMAIN frames'
    /\ Key(path \o <<1>>, frames'[Key(path, 0)].iter) \notin DOMAIN frames
    /\ \A k \in DOMAIN frames : k.path # path => frames'[k] = frames[k]
    /\ path \in watching'
    /\ result' = result

\* C16: when TaskRunner.run activates an AsyncWatcher, the wrapped command is
\* started and the watcher watches without awaiting it; at every change event
\* the watcher sends the termination request to exactly the processes registered
\* in its child resource set, empties the set, and then starts the new run,
\* whose processes are the only ones registered afterwards; it waits neither for
\* the exit of the previous run's processes nor for that run's outcome.
C16_AsyncRestarts ==
  [][C16_Activation /\ \A path \in watching : C16_Event(path)]_vars

\* A process of the first run was sent the termination request and has not
\* exited, its run has not settled, and a process of the second run is running.
C16_Witness ==
  /\ phase = "run"
  /\ resolved.tag = "AsyncWatcher"
  /\ frames[Key(<<1>>, 1)].outcome = Pending
  /\ \E p, q \in DOMAIN procs :
       /\ procs[p].killed /\ procs[p].status = "running" /\ procs[p].key.iter = 1
       /\ ~procs[q].killed /\ procs[q].status = "running" /\ procs[q].key.iter = 2
       /\ resources[ChildResources(<<>>)] = {ProcessCloser(q)}

(***************************************************************************)
(* C20: the registry under TaskRunner.run.                                 *)
(***************************************************************************)
\* b is "$a 2 && $a 3", a is "q 1", and b is run with no extra arguments.
C20_TwoReferences(ph, reg, c) ==
  /\ ph = "run"
  /\ c = [taskName |-> N_b, args |-> <<>>]
  /\ DOMAIN reg = {N_a, N_b}
  /\ reg[N_a] = Single(<<"q">>, << <<"1">> >>)
  /\ reg[N_b] = Sequence(<<Ref(N_a, << <<"2">> >>), Ref(N_a, << <<"3">> >>)>>)

C20_Vectors(ph, reg, c, ps, e) ==
  /\ C20_TwoReferences(ph, reg, c) =>
       \A p \in DOMAIN ps :
         /\ ps[p].key.path \in {<<1>>, <<2>>}
         /\ (ps[p].key.path = <<1>>) => ps[p].args = << <<"q">>, <<"1">>, <<"2">> >>
         /\ (ps[p].key.path = <<2>>) => ps[p].args = << <<"q">>, <<"1">>, <<"3">> >>
  /\ (e.call = c) =>
       \A p \in DOMAIN ps : \A x \in e.spawned : (x[1] = ps[p].key) => (x[2] = ps[p].args)

\* C20: no step of the run phase (a call of TaskRunner.run that succeeds or
\* fails, a process exit) changes the registry; the two references "$a 2" and
\* "$a 3" to a = "q 1" spawn [q, 1, 2] and [q, 1, 3]; and a task run again with
\* the same arguments spawns, at every place of its command, the argument
\* vector the run before spawned there.
C20_RegistryReadOnly ==
  [][/\ (phase' = "run") => (tasks' = tasks)
     /\ C20_Vectors(phase', tasks', call', procs', earlier')]_vars

\* The task of the two references is run for the second time: the first run
\* spawned both vectors, and this one has spawned both again.
C20_Witness ==
  /\ C20_TwoReferences(phase, tasks, call)
  /\ runs = 2
  /\ earlier.call = call
  /\ {x[2] : x \in earlier.spawned} = {<< <<"q">>, <<"1">>, <<"2">> >>, << <<"q">>, <<"1">>, <<"3">> >>}
  /\ {x[2] : x \in Spawned(procs)} = {<< <<"q">>, <<"1">>, <<"2">> >>, << <<"q">>, <<"1">>, <<"3">> >>}

(***************************************************************************)
(* C21: what resolution returns.                                           *)
(***************************************************************************)
\* C21: for every registered task TaskRunner.run is called on, resolution ends,
\* in an error or in a command that holds no Ref at any depth; no frame of the
\* run is the run of a Ref, and the run never fails with "Ref should be resolved
\* before running.".
C21_NoReferenceLeft ==
  RanRegistered =>
    /\ resolved # NotResolved
    /\ IsError(resolved) \/ RefNodes(resolved) = {}
    /\ \A k \in DOMAIN frames : frames[k].tag # "Ref"
    /\ result # Error("Ref should be resolved before running.", <<>>)

\* A watched sequence that holds a reference was resolved and the process of
\* the referenced task was spawned.
C21_Witness ==
  /\ RanRegistered
  /\ CalledCommand.tag \in {"SyncWatcher", "AsyncWatcher"}
  /\ CalledCommand.command.tag = "Sequence"
  /\ RefNodes(CalledCommand) # {}
  /\ ~IsError(resolved)
  /\ \E p \in DOMAIN procs : procs[p].key.path = <<1, 2>>

(***************************************************************************)
(* C22: when the reference-loop error is raised.                           *)
(***************************************************************************)
\* C22: resolution fails with the reference-loop error only when the task it
\* names is reached from the task that is run and lies on a cycle of references;
\* a task referred to twice by commands of one Sequence or Parallel, or reached
\* along two chains of references, does not raise it.
C22_LoopErrorOnlyForCycle ==
  (RanRegistered /\ resolved.tag = "Error" /\ resolved.msg = "Task is in a reference loop.") =>
    /\ resolved.what \in Reachable(CalledCommand, tasks)
    /\ OnCycle(resolved.what, tasks)

\* a = "$b & $c", b = "$c 3", c = "p": c is reached twice, and a was resolved to
\* the two commands and run.
C22_Witness ==
  /\ RanRegistered
  /\ call = [taskName |-> N_a, args |-> <<>>]
  /\ file \in DiamondFiles
  /\ ~HasReferenceLoop(CalledCommand, tasks)
  /\ resolved = Parallel(<<Single(<<"p">>, << <<"3">> >>), Single(<<"p">>, <<>>)>>)
  /\ Len(procs) = 2

(***************************************************************************)
(* C23: a watcher does not settle.                                         *)
(***************************************************************************)
WatcherTags == {"SyncWatcher", "AsyncWatcher"}

\* The run of a task whose root is a watcher has not settled; the watcher takes
\* the next change event whenever it is not awaiting a run of its command: an
\* AsyncWatcher always, a SyncWatcher once the current run has settled.
C23_Watching(ph, cmd, fr, res, w) ==
  (ph = "run" /\ cmd.tag \in WatcherTags) =>
    /\ res = Pending
    /\ Key(<<>>, 0) \in DOMAIN fr
    /\ Key(<<1>>, fr[Key(<<>>, 0)].iter) \in DOMAIN fr
    /\ (cmd.tag = "AsyncWatcher" \/ fr[Key(<<1>>, fr[Key(<<>>, 0)].iter)].outcome # Pending)
         => (fr[Key(<<>>, 0)].state = "waiting" /\ <<>> \in w)

\* A change event starts the next run of the watcher's command.
C23_Event ==
  (events' = events + 1 /\ resolved.tag \in WatcherTags) =>
    /\ frames'[Key(<<>>, 0)].iter = frames[Key(<<>>, 0)].iter + 1
    /\ Key(<<1>>, frames[Key(<<>>, 0)].iter + 1) \in DOMAIN frames'
    /\ Key(<<1>>, frames[Key(<<>>, 0)].iter + 1) \notin DOMAIN frames

\* C23: for a task whose root is a SyncWatcher or an AsyncWatcher, TaskRunner.run
\* neither succeeds nor fails, whatever the outcomes of the runs of the wrapped
\* command; after a run that failed the watcher still takes the next change
\* event, and every change event starts a new run.
C23_WatcherNeverSettles ==
  [][C23_Watching(phase', resolved', frames', result', watching') /\ C23_Event]_vars

\* Under a SyncWatcher the first run failed, a change event started the second,
\* which failed too, and the watcher waits for the next event.
C23_Witness ==
  /\ phase = "run"
  /\ resolved.tag = "SyncWatcher"
  /\ Key(<<1>>, 2) \in DOMAIN frames
  /\ frames[Key(<<1>>, 1)].outcome \notin {Ok, Pending}
  /\ frames[Key(<<1>>, 2)].outcome \notin {Ok, Pending}
  /\ frames[Key(<<>>, 0)].state = "waiting"
  /\ result = Pending

(***************************************************************************)
(* C24: which resource set a closer is registered in.                      *)
(***************************************************************************)
Registered(rs) == {p \in DOMAIN procs : ProcessCloser(p) \in resources[rs]}

\* The paths of p and q part at a Parallel: they lie in two of its branches.
SiblingBranches(p, q) ==
  \E n \in 0..Len(procs[p].key.path) :
    /\ n < Len(procs[q].key.path)
    /\ n < Len(procs[p].key.path)
    /\ SubSeq(procs[p].key.path, 1, n) = SubSeq(procs[q].key.path, 1, n)
    /\ procs[p].key.path[n + 1] # procs[q].key.path[n + 1]
    /\ NodeAt(resolved, SubSeq(procs[p].key.path, 1, n)).tag = "Parallel"

\* The watchers above the node at `path`.
WatchersAbove(path) ==
  {n \in 0..(Len(path) - 1) : IsWatcher(NodeAt(resolved, SubSeq(path, 1, n)))}

\* The set the context of the node at `path` holds: the one TaskRunner.run
\* allocated, or the childResources of the watcher above the node.
ContextSetOf(path) ==
  IF WatchersAbove(path) = {} THEN ContextResources
  ELSE ChildResources(SubSeq(path, 1, CHOOSE n \in WatchersAbove(path) :
                                         \A m \in WatchersAbove(path) : m <= n))

Leaves(p, rs) ==
  /\ rs \in DOMAIN resources
  /\ ProcessCloser(p) \in resources[rs]
  /\ rs \in DOMAIN resources' => ProcessCloser(p) \notin resources'[rs]

\* Single.run observes the exit of p in this step.
ExitObserved(p) == procs[p].status = "running" /\ procs'[p].status # "running"

\* The watcher that owns the set rs handles a change event in this step.
ForceClosed(rs) ==
  /\ events' = events + 1
  /\ rs.owner = "childResources"
  /\ frames'[Key(rs.path, 0)].iter = frames[Key(rs.path, 0)].iter + 1

\* C25 as stated: the closer of a process leaves its set only in the step in
\* which the owning Single.run observes the exit of the process.
C25_OnlyOwnerRemoves ==
  [][\A p \in DOMAIN procs : \A rs \in DOMAIN resources : Leaves(p, rs) => ExitObserved(p)]_vars

C25_Step ==
  \* registered when spawned, before the exit is awaited
  /\ \A p \in NewProcs :
       /\ procs'[p].status = "running"
       /\ ProcessCloser(p) \in resources'[procs'[p].resources]
  /\ \A p \in DOMAIN procs : \A rs \in DOMAIN resources :
       \* removed by the owner at the exit, or by the watcher's closeResouces
       /\ Leaves(p, rs) =>
            \/ ExitObserved(p)
            \/ ForceClosed(rs) /\ procs'[p].killed /\ procs'[p].status = procs[p].status
       \* the exit leaves the closer in no set, and closeResouces none in its set
       /\ (ExitObserved(p) /\ rs \in DOMAIN resources') => ProcessCloser(p) \notin resources'[rs]
       /\ (ForceClosed(rs) /\ ProcessCloser(p) \in resources[rs]) => Leaves(p, rs)
       \* a closer that has left does not come back
       /\ (ProcessCloser(p) \notin resources[rs] /\ rs \in DOMAIN resources')
            => ProcessCloser(p) \notin resources'[rs]

\* C25, amended: the closer of a spawned process is added to the set of its
\* context when the process is spawned, before its exit is awaited, and leaves
\* the set in one of two ways: the owning Single.run removes it when it observes
\* the exit, or the watcher that owns the set handles a change event, and its
\* closeResouces requests the termination of every registered process and then
\* clears the set; a closer that left does not come back, so the owner's removal
\* at the exit of a force-closed process finds nothing to remove.
C25_OwnerOrClear == [][C25_Step]_vars

\* A process was force-closed: it is still running, and its closer is in no set.
C25_Witness ==
  /\ phase = "run"
  /\ \E p \in DOMAIN procs :
       /\ procs[p].killed
       /\ procs[p].status = "running"
       /\ \A rs \in DOMAIN resources : ProcessCloser(p) \notin resources[rs]

(***************************************************************************)
(* C26: the run an AsyncWatcher has superseded.                            *)
(***************************************************************************)
\* C26: under an AsyncWatcher, every process that is running and was not sent
\* the termination request belongs to the most recent run of the wrapped
\* command: a run superseded by a change event spawns nothing more.
C26_SupersededSpawnsNothing ==
  (phase = "run" /\ resolved.tag = "AsyncWatcher") =>
    \A p \in DOMAIN procs :
      (procs[p].status = "running" /\ ~procs[p].killed)
        => procs[p].key.iter = frames[Key(<<>>, 0)].iter
====
